---- MODULE Spec2Model ----
(***************************************************************************)
(* Model of the DCC baseline packet encoders of dcc-rs:                    *)
(*   src/src/packets/mod.rs       Packet::serialize, MAX_BITS,             *)
(*                                SerializeBuffer                          *)
(*   src/src/packets/baseline.rs  SpeedAndDirection(+Builder), Reset,      *)
(*                                Idle, BroadcastStop                      *)
(*                                                                         *)
(* Three specifications share the variables:                               *)
(*   Spec        a caller that configures one builder through its setters, *)
(*               builds packets, serializes baseline packets and then      *)
(*               releases packet and buffer before configuring again;      *)
(*   SpecEncode  build and the baseline serializers applied to every       *)
(*               builder state the setters can produce;                    *)
(*   SpecFrame   a caller that hands arbitrary payloads to                 *)
(*               Packet::serialize, reusing one buffer across calls.       *)
(***************************************************************************)
EXTENDS Integers, Sequences, FiniteSets

(***************************************************************************)
(* Program constants.                                                      *)
(***************************************************************************)
\* `address > 0x7f`
AddressMax == 127
\* `speed > 28`
SpeedMax == 28
\* `self.address.unwrap_or(3)`
AddressDefault == 3

(***************************************************************************)
(* Bounds of the model (the inputs the callers draw from).                 *)
(***************************************************************************)
\* address() is called with 0..AddressLow, with the values within
\* AddressNear of AddressMax, and with 35.
AddressLow == 3
AddressNear == 2
\* speed() is called with every u8 in 0..MaxSpeedInput.
MaxSpeedInput == 30
\* Packet::serialize is called with payloads of 0..MaxPayloadLen bytes.
MaxPayloadLen == 5

\* u8 values the framing caller puts into payloads: 0x5C and 0xA3, so that
\* every bit of a byte takes both values and neither byte reads the same
\* MSB-first and LSB-first.
ByteInputs == {92, 163}

AddressInputs ==
    (0..AddressLow) \cup ((AddressMax - AddressNear)..(AddressMax + AddressNear)) \cup {35}
SpeedInputs == 0..MaxSpeedInput

(***************************************************************************)
(* u8 arithmetic.                                                          *)
(***************************************************************************)
RECURSIVE BitOr(_, _)
BitOr(x, y) ==
    IF x = 0 THEN y
    ELSE IF y = 0 THEN x
    ELSE (IF x % 2 = 1 \/ y % 2 = 1 THEN 1 ELSE 0) + 2 * BitOr(x \div 2, y \div 2)

RECURSIVE BitAnd(_, _)
BitAnd(x, y) ==
    IF x = 0 \/ y = 0 THEN 0
    ELSE (IF x % 2 = 1 /\ y % 2 = 1 THEN 1 ELSE 0) + 2 * BitAnd(x \div 2, y \div 2)

RECURSIVE BitXor(_, _)
BitXor(x, y) ==
    IF x = 0 THEN y
    ELSE IF y = 0 THEN x
    ELSE (IF (x % 2) # (y % 2) THEN 1 ELSE 0) + 2 * BitXor(x \div 2, y \div 2)

Shr(x, n) == x \div (2 ^ n)
Shl(x, n) == (x * (2 ^ n)) % 256

(***************************************************************************)
(* Option<T>: None is the empty sequence, Some(v) the one-element one.     *)
(***************************************************************************)
None == << >>
Some(v) == << v >>
unwrap_or(o, d) == IF o = None THEN d ELSE o[1]

(***************************************************************************)
(* Result<T>: Ok carries the returned bit count (0 for a setter's          *)
(* Ok(&mut Self)), Err carries the Error variant.                          *)
(***************************************************************************)
Ok(n) == [tag |-> "Ok", val |-> n]
Err(e) == [tag |-> e, val |-> 0]
NoResult == [tag |-> "None", val |-> 0]

(***************************************************************************)
(* Direction                                                               *)
(***************************************************************************)
Direction == {"Forward", "Backward"}
DirectionDefault == "Forward"

(***************************************************************************)
(* The bit buffer: a sequence of MAX_BITS bits. The source counts bits     *)
(* from 0; bit i of the source is element i + 1 of the sequence.           *)
(***************************************************************************)
MAX_BITS == 15 + 4 * 9 + 1
SerializeBufferDefault == [i \in 1..MAX_BITS |-> FALSE]

\* buf[i]
bit(b, i) == b[i + 1]

\* [b].view_bits::<Msb0>()[j], j in 0..7
ByteBitLsb0(b, j) == (b \div (2 ^ j)) % 2 = 1
ByteBit(b, j) == (b \div (2 ^ (7 - j))) % 2 = 1

\* bytes.view_bits::<Msb0>() as a 1-indexed sequence of bits
view_bits(bytes) ==
    [k \in 1..(8 * Len(bytes)) |-> ByteBit(bytes[((k - 1) \div 8) + 1], (k - 1) % 8)]

\* buf[lo..hi].copy_from_bitslice(bits)
copy_from_bitsliceOr(b, lo, hi, bits) ==
    SubSeq(b, 1, lo) \o [k \in 1..(hi - lo) |-> b[lo + k] \/ bits[k]]
                    \o SubSeq(b, hi + 1, Len(b))
copy_from_bitslice(b, lo, hi, bits) ==
    SubSeq(b, 1, lo) \o bits \o SubSeq(b, hi + 1, Len(b))

\* buf.set(pos, v)
set(b, pos, v) == [b EXCEPT ![pos + 1] = v]

PreambleBytesShort == << 255, 252 >>
PreambleBytes == << 255, 254 >>

\* the body of `for byte in data`, from position pos on
RECURSIVE WriteBytes(_, _, _)
WriteBytes(b, pos, data) ==
    IF data = << >> THEN [buf |-> b, pos |-> pos]
    ELSE LET b1 == set(b, pos, FALSE)
             b2 == copy_from_bitslice(b1, pos + 1, pos + 9, view_bits(<< Head(data) >>))
         IN  WriteBytes(b2, pos + 9, Tail(data))

required_bits(data) == 15 + Len(data) * 9 + 1

\* The payloads the framing caller passes: every payload over ByteInputs of a
\* length that fits the buffer, and constant payloads of the longer lengths.
FitLen == (MAX_BITS - 16) \div 9
Payloads ==
    UNION {[1..n -> ByteInputs] : n \in 0..FitLen}
    \cup {[i \in 1..n |-> b] : n \in (FitLen + 1)..MaxPayloadLen, b \in ByteInputs}

\* Packet::serialize with the preamble written before the length check
serializeWriteFirst(data, b) ==
    LET b0 == copy_from_bitslice(b, 0, 16, view_bits(PreambleBytes))
    IN  IF required_bits(data) > MAX_BITS
        THEN [buf |-> b0, res |-> Err("TooLong")]
        ELSE LET w == WriteBytes(b0, 15, data)
             IN  [buf |-> set(w.buf, w.pos, TRUE), res |-> Ok(w.pos + 1)]

\* Packet::serialize(data, buf): the buffer afterwards and the result
serialize(data, b) ==
    IF required_bits(data) > MAX_BITS
    THEN [buf |-> b, res |-> Err("TooLong")]
    ELSE LET b0 == copy_from_bitslice(b, 0, 16, view_bits(PreambleBytes))
             w == WriteBytes(b0, 15, data)
         IN  [buf |-> set(w.buf, w.pos, TRUE), res |-> Ok(w.pos + 1)]

(***************************************************************************)
(* SpeedAndDirectionBuilder                                                *)
(***************************************************************************)
BuilderDefault ==
    [address |-> None, speed |-> None, e_stop |-> FALSE, direction |-> None]

AddressInvalidHigh(a) == a > AddressMax
AddressInvalid(a) == a = 0 \/ a > AddressMax

SpeedInvalid16(s) == s > 16
SpeedInvalid(s) == s > SpeedMax

\* `match self.speed { Some(0) | None => 0, Some(speed) => speed + 3 }`
SpeedFieldOffset2(sp) ==
    IF sp = None \/ sp = Some(0) THEN 0 ELSE (sp[1] + 2) % 256
SpeedField(sp) ==
    IF sp = None \/ sp = Some(0) THEN 0 ELSE (sp[1] + 3) % 256

\* the direction bit of the instruction
DirectionBitsInverted(d) ==
    IF unwrap_or(d, DirectionDefault) = "Forward" THEN 64 ELSE BitOr(64, 32)
DirectionBits(d) ==
    IF unwrap_or(d, DirectionDefault) = "Forward" THEN BitOr(64, 32) ELSE 64

\* SpeedAndDirectionBuilder::build: the packet built from builder state bl
build(bl) ==
    LET addr == unwrap_or(bl.address, AddressDefault)
        sp == SpeedField(bl.speed)
        i0 == DirectionBits(bl.direction)
        instruction ==
            IF bl.e_stop
            THEN BitOr(i0, 1)
            ELSE BitOr(BitOr(i0, BitAnd(Shr(sp, 1), 15)), Shl(BitAnd(sp, 1), 4))
    IN  [address |-> addr, instruction |-> instruction]

(***************************************************************************)
(* Payloads of the baseline packets                                        *)
(***************************************************************************)
ChecksumSum(a, i) == (a + i) % 256
Checksum(a, i) == BitXor(a, i)

SpeedAndDirectionData(p) ==
    << p.address, p.instruction, Checksum(p.address, p.instruction) >>
ResetData == << 0, 0, 0 >>
IdleData == << 255, 0, 255 >>
BroadcastStopData(float) ==
    LET instr == IF float THEN 80 ELSE 64 IN << 0, instr, instr >>

(***************************************************************************)
(* State                                                                   *)
(***************************************************************************)
VARIABLES
    builder,    \* the SpeedAndDirectionBuilder the caller owns
    pkt,        \* Option<SpeedAndDirection>: the packet the caller holds
    buf,        \* the caller's SerializeBuffer
    data,       \* the payload of the last Packet::serialize call on buf
    res         \* the Result of the last fallible call

vars == << builder, pkt, buf, data, res >>

Init ==
    /\ builder = BuilderDefault
    /\ pkt = None
    /\ buf = SerializeBufferDefault
    /\ data = << >>
    /\ res = NoResult

\* The caller of Spec reconfigures the builder only between packets.
Configuring == pkt = None /\ data = << >>

(***************************************************************************)
(* Operations                                                              *)
(***************************************************************************)
Address(a) ==
    /\ Configuring
    /\ IF AddressInvalid(a)
       THEN /\ res' = Err("InvalidAddress")
            /\ UNCHANGED builder
       ELSE /\ builder' = [builder EXCEPT !.address = Some(a)]
            /\ res' = Ok(0)
    /\ UNCHANGED << pkt, buf, data >>

Speed(s) ==
    /\ Configuring
    /\ IF SpeedInvalid(s)
       THEN /\ res' = Err("InvalidSpeed")
            /\ UNCHANGED builder
       ELSE /\ builder' = [builder EXCEPT !.speed = Some(s)]
            /\ res' = Ok(0)
    /\ UNCHANGED << pkt, buf, data >>

SetDirection(d) ==
    /\ Configuring
    /\ builder' = [builder EXCEPT !.direction = Some(d)]
    /\ UNCHANGED << pkt, buf, data, res >>

EStop(f) ==
    /\ Configuring
    /\ builder' = [builder EXCEPT !.e_stop = f]
    /\ UNCHANGED << pkt, buf, data, res >>

BuildTaking ==
    /\ pkt' = Some(build(builder))
    /\ builder' = BuilderDefault
    /\ UNCHANGED << buf, data, res >>

Build ==
    /\ pkt' = Some(build(builder))
    /\ UNCHANGED << builder, buf, data, res >>

\* <Self as Packet>::serialize(d, buf) and its result
Framed(d) ==
    LET r == serialize(d, buf)
    IN  /\ buf' = r.buf
        /\ res' = r.res
        /\ data' = d

SpeedAndDirectionSerialize ==
    /\ pkt # None
    /\ Framed(SpeedAndDirectionData(pkt[1]))
    /\ UNCHANGED << builder, pkt >>

ResetSerialize ==
    /\ Framed(ResetData)
    /\ UNCHANGED << builder, pkt >>

IdleSerialize ==
    /\ Framed(IdleData)
    /\ UNCHANGED << builder, pkt >>

BroadcastStopSerialize(float) ==
    /\ Framed(BroadcastStopData(float))
    /\ UNCHANGED << builder, pkt >>

\* The caller drops the packet and takes a new SerializeBuffer::default().
Release ==
    /\ ~Configuring
    /\ pkt' = None
    /\ buf' = SerializeBufferDefault
    /\ data' = << >>
    /\ res' = NoResult
    /\ UNCHANGED builder

Next ==
    \/ \E a \in AddressInputs : Address(a)
    \/ \E s \in SpeedInputs : Speed(s)
    \/ \E d \in Direction : SetDirection(d)
    \/ \E f \in BOOLEAN : EStop(f)
    \/ Build
    \/ SpeedAndDirectionSerialize
    \/ ResetSerialize
    \/ IdleSerialize
    \/ \E float \in BOOLEAN : BroadcastStopSerialize(float)
    \/ Release

Spec == Init /\ [][Next]_vars

\* Every builder state the setters can produce (an address in 1..AddressMax
\* or none, a speed in 0..SpeedMax or none, either e_stop, a direction or
\* none), then built and serialized.
BuilderStates ==
    [address : {None} \cup {Some(a) : a \in 1..AddressMax},
     speed : {None} \cup {Some(s) : s \in 0..SpeedMax},
     e_stop : BOOLEAN,
     direction : {None} \cup {Some(d) : d \in Direction}]

InitEncode ==
    /\ builder \in BuilderStates
    /\ pkt = None
    /\ buf = SerializeBufferDefault
    /\ data = << >>
    /\ res = NoResult

NextEncode ==
    \/ Build
    \/ SpeedAndDirectionSerialize
    \/ ResetSerialize
    \/ IdleSerialize
    \/ \E float \in BOOLEAN : BroadcastStopSerialize(float)

SpecEncode == InitEncode /\ [][NextEncode]_vars

\* Packet::serialize called directly with any payload, on a reused buffer.
PacketSerialize(d) ==
    /\ Framed(d)
    /\ UNCHANGED << builder, pkt >>

NextFrame == \E d \in Payloads : PacketSerialize(d)

SpecFrame == Init /\ [][NextFrame]_vars

(***************************************************************************)
(* Reading the buffer back (used by the properties only).                  *)
(***************************************************************************)
BitVal(b, i, w) == IF bit(b, i) THEN w ELSE 0

\* the number whose 8 bits, most significant first, are bits s..s+7 of b
ByteAt(b, s) ==
    BitVal(b, s, 128) + BitVal(b, s + 1, 64) + BitVal(b, s + 2, 32)
    + BitVal(b, s + 3, 16) + BitVal(b, s + 4, 8) + BitVal(b, s + 5, 4)
    + BitVal(b, s + 6, 2) + BitVal(b, s + 7, 1)

\* the instruction byte laid out by arithmetic from the builder's fields
ReferenceInstruction(bl) ==
    LET field == IF bl.speed \in {None, Some(0)} THEN 0 ELSE bl.speed[1] + 3
    IN  64
        + (IF bl.direction \in {None, Some("Forward")} THEN 32 ELSE 0)
        + (IF bl.e_stop THEN 1 ELSE ((field % 2) * 16) + ((field \div 2) % 16))

(***************************************************************************)
(* Properties                                                              *)
(***************************************************************************)

\* C1: after any baseline serialize (SpeedAndDirection of any buildable
\* packet, Reset, Idle, BroadcastStop) the call succeeded with exactly 43
\* bits, and bits 34..41 are, bit for bit, the exclusive-or of bits 16..23
\* and bits 25..32.
C1_ChecksumIsXor ==
    data # << >> =>
        /\ res = Ok(43)
        /\ \A j \in 0..7 :
               bit(buf, 34 + j) = (bit(buf, 16 + j) # bit(buf, 25 + j))

\* a SpeedAndDirection packet with address 127, speed 28, Backward serialized
C1_Witness ==
    /\ pkt # None
    /\ pkt[1].address = 127
    /\ builder.speed = Some(28)
    /\ builder.direction = Some("Backward")
    /\ ~builder.e_stop
    /\ data = SpeedAndDirectionData(pkt[1])
    /\ res.tag = "Ok"

\* C2: after Packet::serialize of a payload of N bytes, 1 <= N <= 4, the
\* result is Ok(16 + 9N), bits 0..14 are 1, bit 15 is 0, each payload byte i
\* is preceded by a 0 at 15 + 9i and stands MSB first in 16+9i..23+9i, the
\* bit 15 + 9N is 1, and that stop bit lies inside the buffer.
C2_Framing ==
    LET N == Len(data)
    IN  (1 <= N /\ N <= 4) =>
            /\ res = Ok(16 + 9 * N)
            /\ \A i \in 0..14 : bit(buf, i)
            /\ ~bit(buf, 15)
            /\ \A i \in 0..(N - 1) :
                   /\ ~bit(buf, 15 + 9 * i)
                   /\ ByteAt(buf, 16 + 9 * i) = data[i + 1]
            /\ bit(buf, 15 + 9 * N)
            /\ 15 + 9 * N < MAX_BITS
            /\ Len(buf) = MAX_BITS

\* a 4-byte payload accepted, its stop bit at index 51
C2_Witness ==
    /\ Len(data) = 4
    /\ res = Ok(52)
    /\ bit(buf, 51)
    /\ data[1] = 163
    /\ data[4] = 92

\* C3: a Packet::serialize call with a payload of 5 or more bytes returns
\* Error::TooLong and leaves every bit of the buffer as it was.
C3_TooLongLeavesBuffer ==
    [][Len(data') >= 5 => (res' = Err("TooLong") /\ buf' = buf)]_vars

\* a 5-byte payload rejected on a buffer that holds an earlier 4-byte packet
C3_Witness ==
    /\ Len(data) = 5
    /\ res = Err("TooLong")
    /\ bit(buf, 0)
    /\ bit(buf, 51)

C5_InstructionLayout ==
    pkt # None =>
        /\ pkt[1].instruction = ReferenceInstruction(builder)
        /\ pkt[1].address =
               (IF builder.address = None THEN 3 ELSE builder.address[1])

\* a packet built with e_stop set and a speed of 28 stored
C5_Witness ==
    /\ pkt # None
    /\ builder.e_stop
    /\ builder.speed = Some(28)
    /\ builder.direction = Some("Backward")
    /\ pkt[1].instruction = 65

\* C6 as stated: address 35, speed 14, Forward, no e_stop builds instruction
\* 0x78; serialized it gives 43 bits, bytes 0xFF 0xFE first, first payload
\* byte 35 and checksum byte 0x4D.
C6_ScenarioChecksum4D ==
    ( /\ pkt # None
      /\ builder.address = Some(35)
      /\ builder.speed = Some(14)
      /\ builder.direction = Some("Forward")
      /\ ~builder.e_stop ) =>
        /\ pkt[1].address = 35
        /\ pkt[1].instruction = 120
        /\ (data # << >> /\ data[1] = 35) =>
               /\ res = Ok(43)
               /\ ByteAt(buf, 0) = 255
               /\ ByteAt(buf, 8) = 254
               /\ ByteAt(buf, 16) = 35
               /\ ByteAt(buf, 34) = 77

\* C6 (amended): the same scenario, with checksum byte 0x5B (35 XOR 0x78)
\* in bits 34..41, the instruction 0x78 in bits 25..32 and the stop bit 1
\* at index 42.
C6_ScenarioChecksum5B ==
    ( /\ pkt # None
      /\ builder.address = Some(35)
      /\ builder.speed = Some(14)
      /\ builder.direction = Some("Forward")
      /\ ~builder.e_stop ) =>
        /\ pkt[1].address = 35
        /\ pkt[1].instruction = 120
        /\ (data # << >> /\ data[1] = 35) =>
               /\ res = Ok(43)
               /\ ByteAt(buf, 0) = 255
               /\ ByteAt(buf, 8) = 254
               /\ ByteAt(buf, 16) = 35
               /\ ByteAt(buf, 25) = 120
               /\ ByteAt(buf, 34) = 91
               /\ bit(buf, 42)

\* the scenario's packet built and serialized
C6_Witness ==
    /\ builder.address = Some(35)
    /\ builder.speed = Some(14)
    /\ builder.direction = Some("Forward")
    /\ ~builder.e_stop
    /\ pkt # None
    /\ data # << >>
    /\ data[1] = 35
    /\ res = Ok(43)

C8_BuildKeepsBuilder ==
    [][Build => (builder' = builder /\ (pkt # None => pkt' = pkt))]_vars

\* a packet built from a builder configured by setter calls, a rejected
\* speed() among them
C8_Witness ==
    /\ pkt # None
    /\ builder.address = Some(35)
    /\ builder.speed = Some(14)
    /\ builder.e_stop
    /\ res = Err("InvalidSpeed")

C10_ReuseFrame ==
    [][(res'.tag = "Ok" /\ Len(data') >= 1) =>
           LET L == res'.val
               fresh == serialize(data', SerializeBufferDefault).buf
           IN  /\ \A i \in 0..(L - 1) : bit(buf', i) = bit(fresh, i)
               /\ \A i \in L..(MAX_BITS - 1) : bit(buf', i) = bit(buf, i)
      ]_vars

\* a 3-byte packet written over a 4-byte one: the old stop bit is still at 51
C10_Witness ==
    /\ Len(data) = 3
    /\ res = Ok(43)
    /\ bit(buf, 51)
    /\ bit(buf, 43)

====
